---- MODULE Spec2Model ----
(***************************************************************************)
(* Model of WorldManager (world_duplicator.py): the save directory, the    *)
(* metadata store, the cached catalog and the duplicate_world transaction. *)
(*                                                                         *)
(* Strings are sequences of symbols: a world id is a sequence such as      *)
(* <<"a">>, a file name is the id followed by its suffix symbols, so that  *)
(* glob, str.split and str.replace act on them as they do on text.         *)
(* A JSON object is a function from its keys to their values.              *)
(***************************************************************************)
EXTENDS Integers, Sequences, FiniteSets, TLC

\* ------------------------------------------------------------------ bounds
\* duplicate_world calls in one behaviour
MaxCalls == 2
\* the clock runs over 1..MaxClock (epoch seconds)
MaxClock == 2
\* I/O faults injected in one behaviour
MaxFaults == 1

\* ------------------------------------------------------------------ strings
A == <<"a">>
B == <<"b">>
Ids == {A, B}

IndexName(id) == id \o <<"-", "index">>
DataName(id) == id \o <<"-", "data">>
InfoName(id) == id \o <<"_info", "-", "1">>
\* the index file of the info files of a world, and the id scan_worlds reads
\* from its name
InfoIndexName(id) == id \o <<"_info", "-", "index">>
InfoId(id) == id \o <<"_info">>
\* a file name in which the id occurs a second time, after the prefix
EchoName(id) == id \o <<"-">> \o id

\* character order of the symbols ('-' < '1' < '_' < 'a' < 'b' < 'd' < 'i')
SymRank(s) ==
    CASE s = "-" -> 1
      [] s = "1" -> 2
      [] s = "_info" -> 3
      [] s = "a" -> 4
      [] s = "b" -> 5
      [] s = "data" -> 6
      [] s = "index" -> 7
      [] OTHER -> 8

RECURSIVE LexLess(_, _)
LexLess(s, t) ==
    IF s = <<>> THEN t # <<>>
    ELSE IF t = <<>> THEN FALSE
    ELSE IF Head(s) = Head(t) THEN LexLess(Tail(s), Tail(t))
    ELSE SymRank(Head(s)) < SymRank(Head(t))

RECURSIVE SortedSeq(_)
SortedSeq(S) ==
    IF S = {} THEN <<>>
    ELSE LET m == CHOOSE x \in S : \A y \in S \ {x} : LexLess(x, y)
         IN <<m>> \o SortedSeq(S \ {m})

HasPrefix(s, p) == Len(s) >= Len(p) /\ SubSeq(s, 1, Len(p)) = p

\* str.replace(old, new): every non-overlapping occurrence, left to right
RECURSIVE Replace(_, _, _)
Replace(s, old, new) ==
    IF Len(s) < Len(old) THEN s
    ELSE IF SubSeq(s, 1, Len(old)) = old
         THEN new \o Replace(SubSeq(s, Len(old) + 1, Len(s)), old, new)
         ELSE <<Head(s)>> \o Replace(Tail(s), old, new)

\* name.split('-')[0]
RECURSIVE SplitDash0(_)
SplitDash0(s) ==
    IF s = <<>> \/ Head(s) = "-" THEN <<>> ELSE <<Head(s)>> \o SplitDash0(Tail(s))

\* a text made of n "Copy of " prefixes, a base and an optional
\* " (Last played: <time_str>)" suffix (played = <<>>: no suffix)
Text(base) == [copies |-> 0, base |-> base, played |-> <<>>]
EmptyText == Text(<<>>)
CopyOf(name) == [name EXCEPT !.copies = @ + 1]

\* time.strftime('%Y-%m-%d %H:%M', time.localtime(t)): the time, to the minute
StrftimeMinute(t) == <<"Ymd HM", t \div 60>>

\* str.lower() of a symbol of a text
Lower(s) ==
    CASE s = "Home" -> "home"
      [] s = "World" -> "world"
      [] s = "World One" -> "world one"
      [] s = "World Two" -> "world two"
      [] OTHER -> s

\* character order of the lowered symbols of a text: ' ' < 'a' < 'b' < 'c' <
\* 'h' < 'i' < 'n' < 'w', and "world" before "world one" before "world two"
TextRank(s) ==
    CASE s = " (last played: " -> 0
      [] s = "a" -> 1
      [] s = "b" -> 2
      [] s = "copy of " -> 3
      [] s = "home" -> 4
      [] s = "index name" -> 5
      [] s = "no id" -> 6
      [] s = "world" -> 7
      [] s = "world one" -> 8
      [] s = "world two" -> 9
      [] OTHER -> 10

\* the sort key x[0].lower() of a display name, as the ranks of its symbols
SortKey(text) ==
    [i \in 1..text.copies |-> TextRank("copy of ")]
    \o [i \in 1..Len(text.base) |-> TextRank(Lower(text.base[i]))]
    \o (IF text.played = <<>> THEN <<>>
        ELSE <<TextRank(" (last played: "), text.played[2]>>)

\* k < l for two sort keys
RECURSIVE KeyLess(_, _)
KeyLess(k, l) ==
    IF k = <<>> THEN l # <<>>
    ELSE IF l = <<>> THEN FALSE
    ELSE IF Head(k) = Head(l) THEN KeyLess(Tail(k), Tail(l))
    ELSE Head(k) < Head(l)

\* sorted(world_list, key=...): a stable sort, ties keep the order of the list
RECURSIVE StableSorted(_)
StableSorted(l) ==
    IF l = <<>> THEN <<>>
    ELSE LET rest == StableSorted(SubSeq(l, 1, Len(l) - 1))
             x == l[Len(l)]
             k == Cardinality({i \in 1..Len(rest) :
                                 ~KeyLess(SortKey(x[1]), SortKey(rest[i][1]))})
         IN SubSeq(rest, 1, k) \o <<x>> \o SubSeq(rest, k + 1, Len(rest))

\* ------------------------------------------------------------------ paths
\* self.save_dir = None
NoPath == <<>>
\* the save directory: it exists and holds enshrouded_user.json
SavesPath == <<"saves">>
\* a path that does not exist
MissingPath == <<"missing">>
\* a directory that holds no enshrouded_user.json
HollowPath == <<"hollow">>

\* ------------------------------------------------------------------ JSON
EmptyDoc == [k \in {} |-> 0]
Get(d, k, default) == IF k \in DOMAIN d THEN d[k] ELSE default

\* file contents: a parseable JSON document, or bytes named by a tag
Json(d) == [kind |-> "json", tag |-> <<>>, doc |-> d]
Raw(tag) == [kind |-> "raw", tag |-> tag, doc |-> EmptyDoc]
Truncated == Raw(<<"truncated">>)

\* the metadata store file: {"worlds": [...]} , {} or unparseable bytes
NoMetadata == [hasWorlds |-> FALSE, worlds |-> <<>>]
MetaJson(m) == [kind |-> "json", hasWorlds |-> m.hasWorlds, worlds |-> m.worlds]
MetaRaw == [kind |-> "raw", hasWorlds |-> FALSE, worlds |-> <<>>]

\* the failure indicator, in the shape of a backup path that names no directory
None == [target |-> <<>>, stamp |-> <<"None", 0>>]

VARIABLES
    save_dir,     \* self.save_dir: a path, or NoPath for None
    live,         \* the files of the save directory: name -> contents
    dirs,         \* the backup directories: directory name -> (name -> contents)
    diskMeta,     \* contents of enshrouded_user.json
    metadata,     \* self.metadata
    worlds,       \* self.worlds: id -> WorldInfo
    world_list_cache, \* self._world_list_cache: the list the last scan returned
    globOrder,    \* the order in which glob lists the ids a scan had to order by it
    clock,        \* the system clock, in seconds
    pc,           \* position of the running duplicate_world call
    src, tgt,     \* its arguments
    source,       \* its local: self.worlds[source_id]
    todo,         \* files the running loop has still to process
    backup,       \* its local: backup_dir
    result,       \* what the last duplicate_world call returned
    pre,          \* the state at the start of the last duplicate_world call
    raised,       \* the step of the last call in which an exception was raised
    parseFailed,  \* the last call could not read or parse the target index
    stagesDone,   \* the steps of the last call that completed
    tIndex,       \* the clock reading of the index patch of the last call
    tMeta,        \* the clock reading of the metadata patch of the last call
    calls,        \* duplicate_world calls so far
    faults        \* faults injected so far

disk == <<live, dirs, diskMeta>>
manager == <<save_dir, metadata, worlds, world_list_cache>>
locals == <<src, tgt, source, todo, backup, result>>
history == <<pre, raised, parseFailed, stagesDone, tIndex, tMeta>>
vars == <<disk, manager, globOrder, clock, pc, locals, history, calls, faults>>

\* ------------------------------------------------------------------ catalog
\* WorldInfo.files: sorted(glob("{id}-*") + glob("{id}_info-*"))
Files(lv, id) ==
    SortedSeq({n \in DOMAIN lv :
                 \/ HasPrefix(n, id \o <<"-">>)
                 \/ HasPrefix(n, id \o <<"_info", "-">>)})

\* WorldInfo.is_valid
IsValid(lv, w) == ~w.is_deleted /\ Files(lv, w.id) # <<>>

\* id[:6]: the first symbol of an id stands for the six characters of an
\* id of the test directory (world1), the rest of the id is cut off
IdPrefix6(id) == SubSeq(id, 1, 1)

\* WorldInfo.display_name
DisplayName(w) ==
    IF w.last_played # 0
    THEN [w.name EXCEPT !.played = StrftimeMinute(w.last_played)]
    ELSE IF w.name # EmptyText THEN w.name
    ELSE Text(<<"World">> \o IdPrefix6(w.id))

\* WorldManager._read_metadata: a parse failure gives {}
ReadMetadata(file) ==
    IF file.kind = "json" THEN [hasWorlds |-> file.hasWorlds, worlds |-> file.worlds]
    ELSE NoMetadata

\* WorldManager._read_index_file: a read or parse failure gives {}
ReadIndexFile(file) == IF file.kind = "json" THEN file.doc ELSE EmptyDoc

\* position of the first entry of the store whose "id" is id, or 0
FirstEntry(ws, id) ==
    LET hits == {i \in 1..Len(ws) : Get(ws[i], "id", <<>>) = id}
    IN IF hits = {} THEN 0 ELSE CHOOSE i \in hits : \A j \in hits : i <= j

\* WorldManager._get_world_metadata: (name, createdAt, lastPlayed)
GetWorldMetadata(md, id) ==
    LET i == IF md.hasWorlds THEN FirstEntry(md.worlds, id) ELSE 0
    IN IF i = 0 THEN [name |-> EmptyText, created_at |-> 0, last_played |-> 0]
       ELSE [name |-> Get(md.worlds[i], "name", EmptyText),
             created_at |-> Get(md.worlds[i], "createdAt", 0),
             last_played |-> Get(md.worlds[i], "lastPlayed", 0)]

\* the files glob("*-index") finds, and the world id each one names
IndexFiles(lv) ==
    {n \in DOMAIN lv : Len(n) >= 2 /\ n[Len(n)] = "index" /\ n[Len(n) - 1] = "-"}
\* the ids with the skip of "characters" lost
AllCandidateIds(lv) == {SplitDash0(n) : n \in IndexFiles(lv)}

CandidateIds(lv) == {SplitDash0(n) : n \in IndexFiles(lv)} \ {<<"characters">>}

\* the WorldInfo scan_worlds builds for id from the index file it met first
WorldInfoOf(lv, md, id, index_file) ==
    LET index_data == ReadIndexFile(lv[index_file])
        m == GetWorldMetadata(md, id)
    IN [id |-> id, name |-> m.name, index_data |-> index_data,
        is_deleted |-> Get(index_data, "deleted", FALSE),
        last_played |-> m.last_played, created_at |-> m.created_at]

\* self.worlds after scan_worlds, given the index file met first for each id
Scanned(lv, md, first) ==
    LET valid == {id \in CandidateIds(lv) : IsValid(lv, WorldInfoOf(lv, md, id, first[id]))}
    IN [id \in valid |-> WorldInfoOf(lv, md, id, first[id])]

\* the orders in which glob can meet the index files of each id
FirstMet(lv) ==
    LET ids == CandidateIds(lv)
        files == IndexFiles(lv)
        named == [id \in ids |-> {n \in files : SplitDash0(n) = id}]
    IN IF \A id \in ids : Cardinality(named[id]) = 1
       THEN {[id \in ids |-> CHOOSE n \in named[id] : TRUE]}
       ELSE {f \in [ids -> files] : \A id \in ids : f[id] \in named[id]}

\* the sequences that list each element of S once
RECURSIVE Orders(_)
Orders(S) ==
    IF S = {} THEN {<<>>}
    ELSE UNION {{<<x>> \o o : o \in Orders(S \ {x})} : x \in S}

\* no scan relied on the order of glob since the directory last changed
Forgotten == <<>>

\* the orders in which glob can list the ids of the index files
GlobOrders(lv) == Orders(CandidateIds(lv))

\* the list with world_list starting from the cached list instead of []
WorldListAppended(ws, order) ==
    LET kept == SelectSeq(order, LAMBDA id : id \in DOMAIN ws)
    IN world_list_cache \o [i \in 1..Len(kept) |-> <<DisplayName(ws[kept[i]]), kept[i]>>]

\* world_list before the sort: (display_name, id) of each valid world, in the
\* order in which glob listed the ids
WorldList(ws, order) ==
    LET kept == SelectSeq(order, LAMBDA id : id \in DOMAIN ws)
    IN [i \in 1..Len(kept) |-> <<DisplayName(ws[kept[i]]), kept[i]>>]

\* two entries of world_list have the same sort key
HasTie(l) ==
    \E i, j \in 1..Len(l) : i # j /\ SortKey(l[i][1]) = SortKey(l[j][1])

\* the ids of the entries of world_list whose sort key another entry has too
TiedIds(l) ==
    LET keys == [i \in 1..Len(l) |-> SortKey(l[i][1])]
    IN {l[i][2] : i \in {i \in 1..Len(l) : \E j \in 1..Len(l) : i # j /\ keys[i] = keys[j]}}

\* order o, of the ids of S alone
Among(o, S) == SelectSeq(o, LAMBDA id : id \in S)
Range(o) == {o[i] : i \in 1..Len(o)}

\* ------------------------------------------------------------------ initial state
PlainIndex(id, n) == Json([id |-> id, time |-> 0, deleted |-> FALSE, latest |-> n])
SeedIndex(id) == Json([id |-> id, time |-> 0, deleted |-> FALSE, seed |-> 42])
NamedIndex(id, n) ==
    Json([id |-> id, time |-> 0, deleted |-> FALSE, latest |-> n,
          name |-> Text(<<"index name">>)])
DeletedIndex(id, n) == Json([id |-> id, time |-> 0, deleted |-> TRUE, latest |-> n])
CorruptIndex == Raw(<<"corrupt">>)

Entry(id, nm, lp) ==
    [id |-> id, name |-> Text(<<nm>>), createdAt |-> 0, lastPlayed |-> lp]
StoreChoices ==
    { MetaJson([hasWorlds |-> TRUE,
                worlds |-> <<Entry(A, "World One", 0), Entry(B, "World Two", 7)>>]),
      MetaJson([hasWorlds |-> TRUE, worlds |-> <<Entry(A, "World One", 0)>>]),
      MetaJson([hasWorlds |-> TRUE,
                worlds |-> <<[name |-> Text(<<"no id">>)],
                             Entry(A, "Home", 0), Entry(B, "home", 0)>>]),
      MetaRaw }

\* the index file of the characters, which is not a world
CharactersIndex == <<"characters", "-", "index">>

Init ==
    /\ diskMeta \in StoreChoices
    /\ \E ia \in {PlainIndex(A, 1), SeedIndex(A), NamedIndex(A, 1), CorruptIndex},
          ib \in {PlainIndex(B, 2), DeletedIndex(B, 2)},
          extra \in {"none", "files", "indexed"} :
         \* the info files with an index of their own, in one directory
         /\ extra = "indexed" =>
                /\ ia = PlainIndex(A, 1) /\ ib = PlainIndex(B, 2)
                /\ diskMeta.hasWorlds /\ Len(diskMeta.worlds) = 2
         /\ live =
                (IndexName(A) :> ia) @@ (DataName(A) :> Raw(DataName(A)))
                @@ (IndexName(B) :> ib) @@ (DataName(B) :> Raw(DataName(B)))
                @@ (CharactersIndex :> Json([deleted |-> FALSE]))
                @@ (CASE extra = "files" ->
                           (EchoName(A) :> Raw(EchoName(A)))
                           @@ (InfoName(B) :> Raw(InfoName(B)))
                      [] extra = "indexed" ->
                           (InfoName(B) :> Raw(InfoName(B)))
                           @@ (InfoIndexName(B) :> PlainIndex(B, 2))
                      [] OTHER -> [n \in {} |-> Truncated])
    /\ dirs = [d \in {} |-> [n \in {} |-> Truncated]]
    /\ save_dir = NoPath
    /\ metadata = NoMetadata
    /\ worlds = [id \in {} |-> 0]
    /\ world_list_cache = <<>>
    /\ globOrder = Forgotten
    /\ clock = 1
    /\ pc = "idle"
    /\ src = A /\ tgt = A
    /\ source = [name |-> EmptyText, index_data |-> EmptyDoc]
    /\ todo = <<>>
    /\ backup = None
    /\ result = None
    /\ pre = [live |-> live, dirs |-> dirs, diskMeta |-> diskMeta,
              metadata |-> metadata, worlds |-> worlds, clock |-> clock]
    /\ raised = "none"
    /\ parseFailed = FALSE
    /\ stagesDone = {}
    /\ tIndex = 0
    /\ tMeta = 0
    /\ calls = 0
    /\ faults = 0

\* no call is running: nothing was called yet or the last call was a scan
\* ("idle"), a rejected set_save_directory ("rejected") or a duplicate_world
\* ("returned")
AtRest == pc \in {"idle", "rejected", "returned"}

\* if not self.save_dir
saveDirSet == save_dir # NoPath

\* the body of scan_worlds, with md for self.metadata
Scan(md) ==
    /\ \E first \in FirstMet(live) : worlds' = Scanned(live, md, first)
    \* the sorted list depends on the order of glob for the ids with a tied
    \* sort key alone, and which ids are tied does not depend on it: one
    \* order of glob is taken for each order of the ids it is relied on for
    /\ \E orders \in {GlobOrders(live)} :
       \E tied \in {TiedIds(WorldList(worlds', CHOOSE o \in orders : TRUE))} :
       \E relied \in {o \in Orders(Range(globOrder) \cup tied) :
                         Among(o, Range(globOrder)) = globOrder} :
       \E order \in {CHOOSE o \in orders : Among(o, Range(relied)) = relied} :
       \E world_list \in {WorldList(worlds', order)} :
           /\ world_list_cache' = StableSorted(world_list)
           /\ globOrder' = relied

\* time passes; the clock is read by Mkdir, PatchIndex and PatchMetadata only,
\* so a second that ends at any other moment is one that ends before the next read
Tick ==
    /\ pc \in {"mkdir", "index", "meta"}
    /\ clock < MaxClock
    /\ clock' = clock + 1
    /\ UNCHANGED <<disk, manager, globOrder, pc, locals, history, calls, faults>>

\* set_save_directory(path) with the save directory
SetSaveDirectory ==
    /\ AtRest
    /\ save_dir' = SavesPath
    /\ metadata' = ReadMetadata(diskMeta)
    /\ Scan(metadata')
    /\ pc' = "idle"
    /\ UNCHANGED <<disk, clock, locals, history, calls, faults>>

\* self.save_dir after an assignment that precedes the two checks
SaveDirAssignedFirst(path) == path

\* self.save_dir when set_save_directory raises: the checks come first
SaveDirOnError(path) == save_dir

\* set_save_directory(path) with a path that does not exist or a directory
\* without enshrouded_user.json: ValueError.  The call reads nothing of the
\* manager, so it is taken after a scan or before any call only.
SetSaveDirectoryRejected ==
    /\ pc = "idle"
    /\ \E path \in {MissingPath, HollowPath} : save_dir' = SaveDirOnError(path)
    /\ pc' = "rejected"
    /\ UNCHANGED <<disk, metadata, worlds, world_list_cache, globOrder, clock,
                   locals, history, calls, faults>>

\* scan_worlds()
ScanWorlds ==
    /\ AtRest
    /\ saveDirSet
    /\ Scan(metadata)
    /\ pc' = "idle"
    /\ UNCHANGED <<disk, save_dir, metadata, clock, locals, history, calls, faults>>

\* ------------------------------------------------------------------ duplicate_world
\* time.strftime('%Y%m%d%H%M%S'): the local time, to the second
Strftime(t) == <<"YmdHMS", t>>

\* save_dir / f"{target_id}_backup_{timestamp}"
BackupDir(target_id, timestamp) == [target |-> target_id, stamp |-> timestamp]

\* the guard with the check of the target lost
SourceIdValid(s, t) == s \in DOMAIN worlds

\* the guard of duplicate_world
ValidIds(s, t) == s \in DOMAIN worlds /\ t \in DOMAIN worlds

\* an except clause that logs and falls through to the return of the path
ReturnBackupOnException == backup

\* what the except clause returns
OnException == None

\* keys of the source index the patch loops skip
SkippedKeys == {"id", "time", "deleted"}

\* the index document written by the index patch
PatchedIndex(index_data, source_index, now) ==
    LET copied == DOMAIN source_index \ SkippedKeys
    IN [k \in DOMAIN index_data \cup {"time", "deleted", "latest"} \cup copied |->
          IF k \in copied THEN source_index[k]
          ELSE IF k = "time" THEN now
          ELSE IF k = "deleted" THEN FALSE
          ELSE IF k = "latest" THEN Get(source_index, "latest", 0)
          ELSE index_data[k]]

\* the store entry written by the metadata patch
PatchedEntry(world, src_info, now) ==
    LET copied == DOMAIN src_info.index_data \ SkippedKeys
    IN [k \in DOMAIN world \cup {"name", "lastPlayed"} \cup copied |->
          IF k \in copied THEN src_info.index_data[k]
          ELSE IF k = "name" THEN CopyOf(src_info.name)
          ELSE IF k = "lastPlayed" THEN now
          ELSE world[k]]

\* world["id"] raises KeyError: an entry without "id" is met before a match
EntryWithoutId(ws, id) ==
    \E i \in 1..Len(ws) :
        /\ "id" \notin DOMAIN ws[i]
        /\ \A j \in 1..(i - 1) : Get(ws[j], "id", <<>>) # id

\* self.metadata after the loop of the metadata patch
PatchedMetadata(md, id, src_info, now) ==
    LET i == FirstEntry(md.worlds, id)
    IN IF i = 0 THEN md
       ELSE [md EXCEPT !.worlds[i] = PatchedEntry(md.worlds[i], src_info, now)]

Snapshot ==
    [live |-> live, dirs |-> dirs, diskMeta |-> diskMeta,
     metadata |-> metadata, worlds |-> worlds, clock |-> clock]

\* duplicate_world(s, t) is called: the guard, and the two lookups
Call(s, t) ==
    /\ AtRest
    /\ calls < MaxCalls
    /\ calls' = calls + 1
    /\ src' = s /\ tgt' = t
    /\ pre' = Snapshot
    /\ raised' = "none" /\ parseFailed' = FALSE /\ stagesDone' = {}
    /\ tIndex' = 0 /\ tMeta' = 0
    /\ result' = None /\ backup' = None /\ todo' = <<>>
    /\ IF ValidIds(s, t)
       THEN source' = worlds[s] /\ pc' = "mkdir"
       ELSE source' = source /\ pc' = "returned"
    \* the call may change the directory, and with it the order of glob
    /\ globOrder' = Forgotten
    /\ UNCHANGED <<disk, manager, clock, faults>>

Return(value) == pc' = "returned" /\ result' = value

Raise(stage) ==
    /\ faults < MaxFaults
    /\ faults' = faults + 1
    /\ raised' = stage
    /\ Return(OnException)

\* backup_dir.mkdir(parents=True, exist_ok=True), and target.files is listed
Mkdir ==
    /\ pc = "mkdir"
    /\ backup' = BackupDir(tgt, Strftime(clock))
    /\ dirs' = IF backup' \in DOMAIN dirs THEN dirs
               ELSE (backup' :> [n \in {} |-> Truncated]) @@ dirs
    /\ todo' = Files(live, tgt)
    /\ pc' = "move"
    /\ UNCHANGED <<live, diskMeta, manager, globOrder, clock, src, tgt, source, result,
                   history, calls, faults>>

FailMkdir ==
    /\ pc = "mkdir"
    /\ Raise("backup")
    /\ UNCHANGED <<disk, manager, globOrder, clock, src, tgt, source, todo, backup,
                   pre, parseFailed, stagesDone, tIndex, tMeta, calls>>

\* a move loop that passes over the file and leaves it where it is
MoveFileSkipped ==
    /\ pc = "move" /\ todo # <<>>
    /\ todo' = Tail(todo)
    /\ UNCHANGED <<disk, manager, globOrder, clock, pc, src, tgt, source, backup,
                   result, history, calls, faults>>

\* shutil.move(file, backup_dir / file.name) of the next target file
MoveFile ==
    /\ pc = "move" /\ todo # <<>>
    /\ LET f == Head(todo)
       IN /\ dirs' = [dirs EXCEPT ![backup] = (f :> live[f]) @@ @]
          /\ live' = [n \in DOMAIN live \ {f} |-> live[n]]
    /\ todo' = Tail(todo)
    /\ UNCHANGED <<diskMeta, manager, globOrder, clock, pc, src, tgt, source, backup, result,
                   history, calls, faults>>

FailMove ==
    /\ pc = "move" /\ todo # <<>>
    /\ Raise("backup")
    /\ UNCHANGED <<disk, manager, globOrder, clock, src, tgt, source, todo, backup,
                   pre, parseFailed, stagesDone, tIndex, tMeta, calls>>

\* the move loop ends; source.files is listed for the copy loop
EndBackup ==
    /\ pc = "move" /\ todo = <<>>
    /\ todo' = Files(live, src)
    /\ pc' = "copy"
    /\ stagesDone' = stagesDone \cup {"backup"}
    /\ UNCHANGED <<disk, manager, globOrder, clock, src, tgt, source, backup, result,
                   pre, raised, parseFailed, tIndex, tMeta, calls, faults>>

\* new_name = source_file.name.replace(source_id, target_id)
NewName(source_file) == Replace(source_file, src, tgt)

\* shutil.copy2(source_file, save_dir / new_name) of the next source file
CopyFile ==
    /\ pc = "copy" /\ todo # <<>>
    /\ live' = (NewName(Head(todo)) :> live[Head(todo)]) @@ live
    /\ todo' = Tail(todo)
    /\ UNCHANGED <<dirs, diskMeta, manager, globOrder, clock, pc, src, tgt, source, backup,
                   result, history, calls, faults>>

\* copy2 raises: the new file was not created, or was left incomplete
FailCopy ==
    /\ pc = "copy" /\ todo # <<>>
    /\ \E created \in BOOLEAN :
         live' = IF created THEN (NewName(Head(todo)) :> Truncated) @@ live ELSE live
    /\ Raise("copy")
    /\ UNCHANGED <<dirs, diskMeta, manager, globOrder, clock, src, tgt, source, todo, backup,
                   pre, parseFailed, stagesDone, tIndex, tMeta, calls>>

EndCopy ==
    /\ pc = "copy" /\ todo = <<>>
    /\ pc' = "index"
    /\ stagesDone' = stagesDone \cup {"copy"}
    /\ UNCHANGED <<disk, manager, globOrder, clock, src, tgt, source, todo, backup, result,
                   pre, raised, parseFailed, tIndex, tMeta, calls, faults>>

\* the index patch: read, set time, deleted, latest and the source's keys, write
PatchIndex ==
    /\ pc = "index"
    /\ LET target_index == IndexName(tgt)
       IN IF target_index \in DOMAIN live
          THEN /\ live' = [live EXCEPT ![target_index] =
                     Json(PatchedIndex(ReadIndexFile(@), source.index_data, clock))]
               /\ parseFailed' = (live[target_index].kind # "json")
               /\ tIndex' = clock
          ELSE UNCHANGED <<live, parseFailed, tIndex>>
    /\ pc' = "meta"
    /\ stagesDone' = stagesDone \cup {"index"}
    /\ UNCHANGED <<dirs, diskMeta, manager, globOrder, clock, src, tgt, source, todo, backup,
                   result, pre, raised, tMeta, calls, faults>>

\* the target index cannot be opened: _read_index_file returns {} all the same
PatchIndexUnread ==
    /\ pc = "index"
    /\ IndexName(tgt) \in DOMAIN live
    /\ faults < MaxFaults
    /\ faults' = faults + 1
    /\ live' = [live EXCEPT ![IndexName(tgt)] =
                  Json(PatchedIndex(EmptyDoc, source.index_data, clock))]
    /\ parseFailed' = TRUE
    /\ tIndex' = clock
    /\ pc' = "meta"
    /\ stagesDone' = stagesDone \cup {"index"}
    /\ UNCHANGED <<dirs, diskMeta, manager, globOrder, clock, src, tgt, source, todo, backup,
                   result, pre, raised, tMeta, calls>>

\* write_text raises: the index is as it was, or was left truncated
FailIndexWrite ==
    /\ pc = "index"
    /\ IndexName(tgt) \in DOMAIN live
    /\ \E opened \in BOOLEAN :
         live' = IF opened THEN [live EXCEPT ![IndexName(tgt)] = Truncated] ELSE live
    /\ Raise("index")
    /\ UNCHANGED <<dirs, diskMeta, manager, globOrder, clock, src, tgt, source, todo, backup,
                   pre, parseFailed, stagesDone, tIndex, tMeta, calls>>

\* the metadata patch: patch the target's entry, rewrite the store, return
PatchMetadata ==
    /\ pc = "meta"
    /\ IF ~metadata.hasWorlds
       THEN /\ Return(backup)
            /\ stagesDone' = stagesDone \cup {"meta"}
            /\ UNCHANGED <<metadata, diskMeta, tMeta, raised>>
       ELSE IF EntryWithoutId(metadata.worlds, tgt)
       THEN /\ Return(OnException)
            /\ raised' = "meta"
            /\ UNCHANGED <<metadata, diskMeta, tMeta, stagesDone>>
       ELSE /\ metadata' = PatchedMetadata(metadata, tgt, source, clock)
            /\ diskMeta' = MetaJson(metadata')
            /\ tMeta' = clock
            /\ Return(backup)
            /\ stagesDone' = stagesDone \cup {"meta"}
            /\ UNCHANGED raised
    /\ UNCHANGED <<live, dirs, save_dir, worlds, world_list_cache,
                   globOrder, clock, src, tgt, source, todo,
                   backup, pre, parseFailed, tIndex, calls, faults>>

\* the store cannot be written: it is as it was, or was left truncated
FailMetaWrite ==
    /\ pc = "meta"
    /\ metadata.hasWorlds
    /\ ~EntryWithoutId(metadata.worlds, tgt)
    /\ metadata' = PatchedMetadata(metadata, tgt, source, clock)
    /\ diskMeta' \in {diskMeta, MetaRaw}
    /\ tMeta' = clock
    /\ Raise("meta")
    /\ UNCHANGED <<live, dirs, save_dir, worlds, world_list_cache,
                   globOrder, clock, src, tgt, source, todo,
                   backup, pre, parseFailed, stagesDone, tIndex, calls>>

\* the arguments of the calls: each pair of world ids, and the id read from
\* the index file of the info files of a world with the id of that world
CallPairs == (Ids \X Ids) \cup {<<InfoId(B), B>>}

DuplicateWorld ==
    \/ \E p \in CallPairs : Call(p[1], p[2])
    \/ Mkdir \/ MoveFile \/ EndBackup \/ CopyFile \/ EndCopy
    \/ PatchIndex \/ PatchMetadata

Fault ==
    \/ FailMkdir \/ FailMove \/ FailCopy
    \/ PatchIndexUnread \/ FailIndexWrite \/ FailMetaWrite

Next ==
    \/ SetSaveDirectory \/ SetSaveDirectoryRejected \/ ScanWorlds
    \/ DuplicateWorld \/ Fault \/ Tick

Spec == Init /\ [][Next]_vars

\* ------------------------------------------------------------------ claims
Returned == pc = "returned"
Succeeded == Returned /\ result # None
IdsWereKnown == src \in DOMAIN pre.worlds /\ tgt \in DOMAIN pre.worlds
AllStages == {"backup", "copy", "index", "meta"}

\* the names of the files of world id in directory lv
FileSet(lv, id) == {Files(lv, id)[i] : i \in 1..Len(Files(lv, id))}

\* a source file name with its leading source id replaced by the target id
PrefixRenamed(n) == tgt \o SubSeq(n, Len(src) + 1, Len(n))

\* the store entry of the target, in the store file d
HasEntry(d, id) == d.hasWorlds /\ FirstEntry(d.worlds, id) # 0
EntryOf(d, id) == d.worlds[FirstEntry(d.worlds, id)]

\* C1: when a call returns after a fault in the copy, index-patch or
\* metadata step, every file the target had before the call is live again
\* under its name with its contents of before the call.
C1_RollbackRestoresTarget ==
    (Returned /\ raised \in {"copy", "index", "meta"}) =>
        \A n \in FileSet(pre.live, tgt) :
            n \in DOMAIN live /\ live[n] = pre.live[n]

\* C2: when a call returns the failure indicator after a fault, the save
\* directory holds the entries it held before the call: no backup directory
\* of the call and no file written by its copy step.
C2_FailureLeavesNoTrace ==
    (Returned /\ result = None /\ raised # "none") =>
        DOMAIN live = DOMAIN pre.live /\ DOMAIN dirs = DOMAIN pre.dirs

C4_UnknownIdRejected ==
    (Returned /\ ~IdsWereKnown) =>
        /\ result = None
        /\ live = pre.live /\ dirs = pre.dirs /\ diskMeta = pre.diskMeta
        /\ worlds = pre.worlds /\ metadata = pre.metadata

C4_Witness ==
    /\ Returned /\ calls = 1
    /\ src \in DOMAIN pre.worlds /\ tgt \notin DOMAIN pre.worlds
    /\ FileSet(live, tgt) # {}
    /\ result = None

\* C5: the path a successful call returns is a directory of the save
\* directory that holds exactly the files the target had right before the
\* call, under their names and with their contents.
C5_BackupHoldsTargetFiles ==
    Succeeded =>
        /\ result \in DOMAIN dirs
        /\ DOMAIN dirs[result] = FileSet(pre.live, tgt)
        /\ \A n \in FileSet(pre.live, tgt) : dirs[result][n] = pre.live[n]

\* C6: after a successful call, for every pair of catalog ids, each file the
\* source had before the call has a live counterpart named with the target
\* id in place of the source id prefix, and but for the index its contents
\* are the source file's.
C6_TargetIsCopyOfSource ==
    Succeeded =>
        \A n \in FileSet(pre.live, src) :
            /\ PrefixRenamed(n) \in DOMAIN live
            /\ n # IndexName(src) => live[PrefixRenamed(n)] = pre.live[n]

\* C7: after a successful call the live target index is a document whose
\* time is the second of the call, whose deleted is false and whose latest
\* is the latest of the source's index document, 0 when it has none.
C7_IndexPatched ==
    Succeeded =>
        /\ IndexName(tgt) \in DOMAIN live
        /\ live[IndexName(tgt)].kind = "json"
        /\ LET doc == live[IndexName(tgt)].doc
           IN /\ {"time", "deleted", "latest"} \subseteq DOMAIN doc
              /\ doc["time"] \in pre.clock..clock
              /\ doc["deleted"] = FALSE
              /\ doc["latest"] = Get(source.index_data, "latest", 0)

\* C8: after a successful call on a target that has an entry in the store,
\* the entry in the store on disk has the name "Copy of " + the source's raw
\* name and lastPlayed the second of the call.
C8_MetadataPatched ==
    (Succeeded /\ HasEntry(pre.metadata, tgt)) =>
        /\ diskMeta.kind = "json" /\ HasEntry(diskMeta, tgt)
        /\ EntryOf(diskMeta, tgt)["name"] = CopyOf(source.name)
        /\ EntryOf(diskMeta, tgt)["lastPlayed"] \in pre.clock..clock

\* C9: after a successful call the lastPlayed of the target's store entry is
\* the time of the target's index document, also when the clock advances
\* between the two patches.
C9_OneTimestamp ==
    (Succeeded /\ HasEntry(pre.metadata, tgt)) =>
        /\ IndexName(tgt) \in DOMAIN live
        /\ live[IndexName(tgt)].kind = "json"
        /\ HasEntry(diskMeta, tgt)
        /\ EntryOf(diskMeta, tgt)["lastPlayed"] = live[IndexName(tgt)].doc["time"]

\* C10: after a successful call every key of the source's index document
\* but id, time and deleted is in the live target index document with the
\* source's value, and in the target's store entry when the store has one.
C10_ExtraFieldsPropagated ==
    Succeeded =>
        \A k \in DOMAIN source.index_data \ SkippedKeys :
            /\ IndexName(tgt) \in DOMAIN live
            /\ live[IndexName(tgt)].kind = "json"
            /\ k \in DOMAIN live[IndexName(tgt)].doc
            /\ live[IndexName(tgt)].doc[k] = source.index_data[k]
            /\ HasEntry(pre.metadata, tgt) =>
                 /\ HasEntry(diskMeta, tgt)
                 /\ k \in DOMAIN EntryOf(diskMeta, tgt)
                 /\ EntryOf(diskMeta, tgt)[k] = source.index_data[k]

\* the state right after a scan_worlds, by itself or in set_save_directory
AfterScan == pc = "idle" /\ saveDirSet

\* the ids that have an "<id>-index" file in directory lv, are not
\* "characters", whose index document does not say deleted = true, and that
\* have a file
QualifyingIds(lv) ==
    {id \in {SubSeq(n, 1, Len(n) - 2) : n \in IndexFiles(lv)} :
        /\ id # <<"characters">>
        /\ Get(ReadIndexFile(lv[IndexName(id)]), "deleted", FALSE) # TRUE
        /\ FileSet(lv, id) # {}}

Unparseable(lv, id) == IndexName(id) \in DOMAIN lv /\ lv[IndexName(id)].kind # "json"

\* C12: right after a scan, a world whose index file cannot be parsed is in
\* neither the catalog nor the returned list, and every other world that is
\* not marked deleted and has a file is in both.
C12_CorruptIndexExcluded ==
    AfterScan =>
        \A id \in Ids :
            IF Unparseable(live, id)
            THEN /\ id \notin DOMAIN worlds
                 /\ \A i \in 1..Len(world_list_cache) : world_list_cache[i][2] # id
            ELSE id \in QualifyingIds(live) =>
                 /\ id \in DOMAIN worlds
                 /\ \E i \in 1..Len(world_list_cache) : world_list_cache[i][2] = id

\* C13: a scan_worlds called right after a scan, with no write to the
\* directory in between, returns the list the scan before it returned, in
\* the same order, and leaves the catalog as it was.
C13_IdempotentRescan ==
    [][(AfterScan /\ ScanWorlds) =>
          (world_list_cache' = world_list_cache /\ worlds' = worlds)]_vars

\* two scans in a row after a duplication, over two worlds whose display
\* names sort equal
C13_Witness ==
    /\ AfterScan /\ calls > 0 /\ result # None
    /\ Len(world_list_cache) = 2 /\ HasTie(world_list_cache)
    /\ globOrder # Forgotten
    /\ ENABLED ScanWorlds

\* C14: a set_save_directory that is rejected, for a path that does not
\* exist or a directory without enshrouded_user.json, leaves the save
\* directory of the manager, its metadata, its catalog and its cached list
\* as they were before the call.
C14_RejectedPathChangesNothing ==
    [][pc' = "rejected" =>
          /\ save_dir' = save_dir /\ metadata' = metadata
          /\ worlds' = worlds /\ world_list_cache' = world_list_cache]_vars

\* a rejected call on a manager that has a directory, metadata and a catalog
C14_Witness ==
    /\ pc = "rejected" /\ save_dir = SavesPath
    /\ metadata.hasWorlds /\ DOMAIN worlds = Ids /\ Len(world_list_cache) = 2
    /\ calls > 0

\* C15: the backup directory a call uses did not exist before the call, and
\* the call leaves every backup directory of before it as it was, also when
\* the call is on the target of an earlier call within the same second.
C15_FreshBackupDir ==
    backup # None =>
        /\ backup \notin DOMAIN pre.dirs
        /\ \A d \in DOMAIN pre.dirs : dirs[d] = pre.dirs[d]

\* the names the copy loop of the running call has written so far
CopiedNames ==
    {NewName(f) : f \in FileSet(live, src) \ {todo[i] : i \in DOMAIN todo}}

\* C16: while a call runs, nothing is copied before every file the target
\* had before the call is in the backup directory, so that the live files of
\* the target are never old ones together with new copies; the index is
\* patched only after the copy loop ended, and the store is written only
\* after the index patch.
C16_MoveFirstThenCopy ==
    /\ pc \in {"mkdir", "move"} =>
          /\ stagesDone = {}
          /\ DOMAIN live \subseteq DOMAIN pre.live
          /\ \A n \in DOMAIN live : live[n] = pre.live[n]
    /\ pc \in {"copy", "index", "meta"} =>
          /\ "backup" \in stagesDone
          /\ \A n \in FileSet(pre.live, tgt) : n \in DOMAIN dirs[backup]
          /\ FileSet(live, tgt) \subseteq CopiedNames
    /\ pc = "copy" => (stagesDone = {"backup"} /\ tIndex = 0)
    /\ pc = "index" => (stagesDone = {"backup", "copy"} /\ todo = <<>> /\ tIndex = 0)
    /\ pc = "meta" => stagesDone = {"backup", "copy", "index"}
    /\ pc \in {"mkdir", "move", "copy", "index", "meta"} =>
          (diskMeta = pre.diskMeta /\ metadata = pre.metadata /\ tMeta = 0)

\* the copy loop under way: one file copied, one to go, on a target that
\* had files before the call, all of them now in the backup directory
C16_Witness ==
    /\ pc = "copy" /\ src # tgt
    /\ todo # <<>> /\ CopiedNames # {}
    /\ FileSet(pre.live, tgt) # {}
    /\ FileSet(live, tgt) = CopiedNames

\* C17: every file the copy loop has written is named as its source file
\* with the leading source id alone replaced by the target id, also when the
\* source id occurs again later in the name.
C17_OnlyPrefixReplaced ==
    pc = "copy" =>
        \A f \in FileSet(live, src) \ {todo[i] : i \in DOMAIN todo} :
            PrefixRenamed(f) \in DOMAIN live /\ NewName(f) = PrefixRenamed(f)

\* the store after differs from the store before in the first entry of the
\* target alone, and there in no key but name, lastPlayed and the keys the
\* patch takes from the source's index document
StoreFrame(before, after) ==
    /\ after.kind = before.kind
    /\ after.hasWorlds = before.hasWorlds
    /\ Len(after.worlds) = Len(before.worlds)
    /\ \A i \in 1..Len(before.worlds) :
          IF i = FirstEntry(before.worlds, tgt)
          THEN /\ DOMAIN before.worlds[i] \subseteq DOMAIN after.worlds[i]
               /\ \A k \in DOMAIN before.worlds[i] \
                        ({"name", "lastPlayed"}
                           \cup (DOMAIN source.index_data \ SkippedKeys)) :
                     after.worlds[i][k] = before.worlds[i][k]
          ELSE after.worlds[i] = before.worlds[i]

\* C18: after a successful call the store on disk has the entries it had
\* before the call, each as it was but the target's, and the target's entry
\* has its id and every key that is not name, lastPlayed or a key taken
\* from the source's index as before; with no entry for the target the
\* store is as it was.
C18_StoreFrame ==
    Succeeded => StoreFrame(pre.diskMeta, diskMeta)

\* C19: right after a scan, the name and the last played time of every
\* world of the catalog are those the store on disk holds for its id.
C19_CatalogFromDisk ==
    AfterScan =>
        \A id \in DOMAIN worlds :
            LET m == GetWorldMetadata(ReadMetadata(diskMeta), id)
            IN worlds[id].name = m.name /\ worlds[id].last_played = m.last_played

\* C20: after a successful call, for every pair of catalog ids, source =
\* target included, a scan_worlds called next lists the source and the
\* target as valid worlds.
C20_BothWorldsSurvive ==
    Succeeded =>
        \A first \in FirstMet(live) :
            {src, tgt} \subseteq DOMAIN Scanned(live, metadata, first)

\* C21: when a call with source different from target has returned, with a
\* path or with None, every file that was one of the source's files before
\* the call is live under the same name with the contents it had.
C21_SourceReadOnly ==
    (Returned /\ src # tgt) =>
        \A n \in FileSet(pre.live, src) : n \in DOMAIN live /\ live[n] = pre.live[n]

\* the index file of the source held a document with an "id" key before the call
SourceIndexHadId ==
    /\ IndexName(src) \in DOMAIN pre.live
    /\ pre.live[IndexName(src)].kind = "json"
    /\ "id" \in DOMAIN pre.live[IndexName(src)].doc

\* C22: after a successful call whose source index file has an "id" key,
\* the live index file of the target is a document whose "id" holds the
\* value of the source's index file.
C22_IndexIdCarriedOver ==
    (Succeeded /\ SourceIndexHadId) =>
        /\ IndexName(tgt) \in DOMAIN live
        /\ live[IndexName(tgt)].kind = "json"
        /\ "id" \in DOMAIN live[IndexName(tgt)].doc
        /\ live[IndexName(tgt)].doc["id"] = pre.live[IndexName(src)].doc["id"]

====
